---- MODULE Spec2Model ----
(***************************************************************************)
(* Client-side booking scripts of the pitch-booking site.                  *)
(*                                                                         *)
(*   static/js/booking_create.js  date change, time-slot selection, the    *)
(*                                fetch-based voucher check, form submit   *)
(*   static/js/book_pitch.js      date change, the navigation-based        *)
(*                                voucher check                            *)
(*                                                                         *)
(* One page view is modelled at a time (page).  Every event handler is one *)
(* action; the async checkVoucher of booking_create.js is cut at its two   *)
(* awaits (fetch, res.json), so other handlers interleave between them.    *)
(*                                                                         *)
(* Conventions.  A JS value that may be null/undefined/missing is a set    *)
(* with at most one element ({} = absent).  Strings the code trims or      *)
(* percent-encodes are sequences of one-character strings.  Texts that     *)
(* come from const.js (TEXT) are named by their key.  The price markup      *)
(* keeps the numbers that toLocaleString formats; the log record keeps     *)
(* every field but the wall-clock time.  Prices are integers, so           *)
(* basePrice * (100 - d) / 100 is exact in integer arithmetic on           *)
(* hundredths.                                                             *)
(***************************************************************************)
EXTENDS Integers, Sequences, FiniteSets, TLC

VARIABLES
    page,                   \* which script's page this view is
    location,               \* {} while the page lives, {url} once it navigated away
    voucherCode,            \* value of the voucher input ({} = no such element)
    bookingDate,            \* value of #bookingDate / #hiddenBookingDate ({} = no such element)
    voucherMessage,         \* #voucherMessage textContent
    currentDiscountPercent, \* booking_create.js:43
    cards,                  \* the .time-slot-card elements
    selectedTimeSlot,       \* #selectedTimeSlot value ({} = '')
    submitBtn,              \* #submitBtn disabled flag ({} = no such element)
    formMessage,            \* #formMessage
    inflight,               \* checkVoucher invocations suspended at an await
    issued,                 \* number of fetches issued by this page view
    lastDone,               \* id of the invocation that ran to its end last (0 = none)
    log,                    \* console.error records
    alertText,              \* last alert() of book_pitch.js
    focused                 \* whether book_pitch.js gave the voucher input focus

vars == <<page, location, voucherCode, bookingDate, voucherMessage,
          currentDiscountPercent, cards, selectedTimeSlot, submitBtn,
          formMessage, inflight, issued, lastDone, log, alertText, focused>>

----------------------------------------------------------------------------
\* Bounds of the model

NumCards == 3

MaxRequests == 2

Cards == 1 .. NumCards

Codes == {<<>>, <<" ">>, <<" ", "A", " ", "B", " ">>}

DateValue == <<"2", "6", "-", "1", "1">>

Percents == {0, 20, 33, 100}

ServerMessages == {{}, {""}, {"Expired"}}

ErrorStatuses == {404, 500}

----------------------------------------------------------------------------
\* Values

absent == {}

Value(opt) == CHOOSE x \in opt : TRUE

\* JS truthiness of a number-or-null and of a string-or-undefined
TruthyNumber(opt) == \E x \in opt : x # 0

TruthyString(opt) == \E x \in opt : x # ""

RECURSIVE trimStart(_)
trimStart(s) ==
    IF s # <<>> /\ Head(s) = " " THEN trimStart(Tail(s)) ELSE s

RECURSIVE trimEnd(_)
trimEnd(s) ==
    IF s # <<>> /\ s[Len(s)] = " " THEN trimEnd(SubSeq(s, 1, Len(s) - 1)) ELSE s

trim(s) == trimEnd(trimStart(s))

RECURSIVE encodeURIComponent(_)
encodeURIComponent(s) ==
    IF s = <<>> THEN <<>>
    ELSE (IF Head(s) = " " THEN <<"%", "2", "0">> ELSE <<Head(s)>>)
         \o encodeURIComponent(Tail(s))

\* Math.round(num / den) for num >= 0, den > 0: floor(x + 1/2)
MathRoundTruncates(num, den) == num \div den

MathRound(num, den) == (2 * num + den) \div (2 * den)

Text(t) == [text |-> t, percent |-> absent]

\* What the server may answer
Responses ==
    {[ok |-> TRUE, status |-> 200]}
        \cup {[ok |-> FALSE, status |-> s] : s \in ErrorStatuses}

ValidBodies ==
    {[valid |-> TRUE, discount_percent |-> {d}, message |-> absent] : d \in Percents}

InvalidBodies ==
    {[valid |-> FALSE, discount_percent |-> absent, message |-> m] : m \in ServerMessages}

Bodies == ValidBodies \cup InvalidBodies

HttpError(status) ==
    [name |-> "VoucherCheckError", message |-> "Voucher HTTP error",
     context |-> {[status |-> status]}]

FetchError == [name |-> "TypeError", message |-> "Failed to fetch", context |-> absent]

ParseError == [name |-> "SyntaxError", message |-> "Unexpected token", context |-> absent]

----------------------------------------------------------------------------
\* Initial state: the server-rendered page, before any event

\* The markup of the model's page: base prices 100000, 100001, 100050, ...
\* and every third card already booked (data-available is not 'true')
BasePrice(c) == IF c = 1 THEN 100000 ELSE 100001 + 49 * (c - 2)

Available(c) == c % 3 # 0

InitCard(c, avail) ==
    [slotId |-> c, available |-> avail, slotPrice |-> BasePrice(c),
     slotDiscountedPrice |-> absent, selected |-> FALSE,
     priceTag |-> {[original |-> BasePrice(c), struck |-> FALSE, discount |-> absent]}]

InitCommon ==
    /\ location = {}
    /\ voucherMessage = Text("")
    /\ currentDiscountPercent = absent
    /\ selectedTimeSlot = absent
    /\ formMessage = [text |-> "", hidden |-> TRUE]
    /\ inflight = {}
    /\ issued = 0
    /\ lastDone = 0
    /\ log = <<>>
    /\ alertText = ""
    /\ focused = FALSE

InitBookingCreate ==
    /\ page = "booking_create"
    /\ voucherCode = {<<>>}
    /\ bookingDate \in {{<<>>}, {DateValue}}
    /\ cards = [c \in Cards |-> InitCard(c, Available(c))]
    /\ submitBtn \in {absent, {TRUE}}

InitBookPitch ==
    /\ page = "book_pitch"
    /\ voucherCode \in {absent, {<<>>}}
    /\ bookingDate \in {absent, {<<>>}, {DateValue}}
    /\ cards = [c \in Cards |-> InitCard(c, Available(c))]
    /\ submitBtn = absent

Init == InitCommon /\ (InitBookingCreate \/ InitBookPitch)

----------------------------------------------------------------------------
\* booking_create.js

Live(p) == page = p /\ location = {}

\* Assigning window.location.href, or submitting a form, replaces the
\* document: its elements, its script state and its pending callbacks are gone
Navigate(url) ==
    /\ location' = {url}
    /\ voucherCode' = absent
    /\ bookingDate' = absent
    /\ voucherMessage' = Text("")
    /\ currentDiscountPercent' = absent
    /\ cards' = [c \in Cards |-> InitCard(c, Available(c))]
    /\ selectedTimeSlot' = absent
    /\ submitBtn' = absent
    /\ formMessage' = [text |-> "", hidden |-> TRUE]
    /\ inflight' = {}
    /\ issued' = 0
    /\ lastDone' = 0
    /\ log' = <<>>
    /\ alertText' = ""
    /\ focused' = FALSE
    /\ UNCHANGED page

\* The user edits the voucher field (read at booking_create.js:66, book_pitch.js:17)
InputVoucherCode(v) ==
    /\ location = {}
    /\ voucherCode # absent
    /\ voucherCode' = {v}
    /\ UNCHANGED <<page, location, bookingDate, voucherMessage,
                   currentDiscountPercent, cards, selectedTimeSlot, submitBtn,
                   formMessage, inflight, issued, lastDone, log, alertText,
                   focused>>

\* bookingDateInput 'change' listener
bookingDateChange(v) ==
    /\ Live("booking_create")
    /\ bookingDate # absent
    /\ IF v # <<>>
       THEN Navigate([path |-> "",
                      query |-> <<<<"QUERY_KEYS.bookingDate", encodeURIComponent(v)>>>>])
       ELSE /\ bookingDate' = {v}
            /\ UNCHANGED <<page, location, voucherCode, voucherMessage,
                           currentDiscountPercent, cards, selectedTimeSlot,
                           submitBtn, formMessage, inflight, issued, lastDone,
                           log, alertText, focused>>

\* selectTimeSlot(card), bound to every card's click
selectTimeSlotKeepsOthers(c) ==
    /\ Live("booking_create")
    /\ IF cards[c].available # TRUE
       THEN UNCHANGED <<cards, selectedTimeSlot, submitBtn>>
       ELSE /\ cards' = [cards EXCEPT ![c].selected = TRUE]
            /\ selectedTimeSlot' = {cards[c].slotId}
            /\ submitBtn' = IF submitBtn # absent THEN {FALSE} ELSE submitBtn
    /\ UNCHANGED <<page, location, voucherCode, bookingDate, voucherMessage,
                   currentDiscountPercent, formMessage, inflight, issued, lastDone,
                   log, alertText, focused>>

selectTimeSlot(c) ==
    /\ Live("booking_create")
    /\ IF cards[c].available # TRUE
       THEN UNCHANGED <<cards, selectedTimeSlot, submitBtn>>
       ELSE /\ cards' = [k \in Cards |-> [cards[k] EXCEPT !.selected = (k = c)]]
            /\ selectedTimeSlot' = {cards[c].slotId}
            /\ submitBtn' = IF submitBtn # absent THEN {FALSE} ELSE submitBtn
    /\ UNCHANGED <<page, location, voucherCode, bookingDate, voucherMessage,
                   currentDiscountPercent, formMessage, inflight, issued, lastDone,
                   log, alertText, focused>>

\* bookingForm 'submit' listener; a disabled submit button blocks submission
bookingFormSubmit ==
    /\ Live("booking_create")
    /\ submitBtn # {TRUE}
    /\ IF selectedTimeSlot = absent
       THEN /\ formMessage' = [text |-> "TIME_SLOT_REQUIRED_MSG", hidden |-> FALSE]
            /\ UNCHANGED <<page, location, voucherCode, bookingDate,
                           voucherMessage, currentDiscountPercent, cards,
                           selectedTimeSlot, submitBtn, inflight, issued,
                           lastDone, log, alertText, focused>>
       ELSE Navigate([path |-> "bookingForm.action", query |-> <<>>])

\* applyDiscountToSlots(discountPercent): the cards after the forEach
applyDiscountToSlotsFirstOnly(cs, discountPercent) ==
    [c \in DOMAIN cs |->
        IF c # 1 THEN cs[c]
        ELSE IF TruthyNumber(discountPercent)
        THEN LET discounted ==
                     MathRound(cs[c].slotPrice * (100 - Value(discountPercent)), 100)
             IN  [cs[c] EXCEPT !.slotDiscountedPrice = {discounted},
                               !.priceTag = {[original |-> cs[c].slotPrice,
                                              struck |-> TRUE,
                                              discount |-> {discounted}]}]
        ELSE [cs[c] EXCEPT !.slotDiscountedPrice = absent,
                           !.priceTag = {[original |-> cs[c].slotPrice,
                                          struck |-> FALSE,
                                          discount |-> absent]}]]

applyDiscountToSlots(cs, discountPercent) ==
    [c \in DOMAIN cs |->
        IF cs[c].priceTag = absent THEN cs[c]
        ELSE IF TruthyNumber(discountPercent)
        THEN LET discounted ==
                     MathRound(cs[c].slotPrice * (100 - Value(discountPercent)), 100)
             IN  [cs[c] EXCEPT !.slotDiscountedPrice = {discounted},
                               !.priceTag = {[original |-> cs[c].slotPrice,
                                              struck |-> TRUE,
                                              discount |-> {discounted}]}]
        ELSE [cs[c] EXCEPT !.slotDiscountedPrice = absent,
                           !.priceTag = {[original |-> cs[c].slotPrice,
                                          struck |-> FALSE,
                                          discount |-> absent]}]]

VoucherFrame ==
    UNCHANGED <<page, location, voucherCode, bookingDate, selectedTimeSlot,
                submitBtn, formMessage, alertText, focused>>

\* checkVoucher up to its first await (booking_create.js:65-78)
checkVoucherResetsOnEmpty ==
    /\ Live("booking_create")
    /\ LET code == trim(Value(voucherCode))
       IN  IF code = <<>>
           THEN /\ voucherMessage' = Text("MSG_ENTER_VOUCHER")
                /\ currentDiscountPercent' = absent
                /\ cards' = applyDiscountToSlots(cards, absent)
                /\ UNCHANGED <<inflight, issued>>
           ELSE /\ issued < MaxRequests
                /\ voucherMessage' = Text("MSG_VOUCHER_CHECKING")
                /\ issued' = issued + 1
                /\ inflight' = inflight \cup
                       {[id |-> issued + 1, phase |-> "fetch",
                         url |-> [path |-> "window.checkVoucherUrl",
                                  query |-> <<<<"code", encodeURIComponent(code)>>>>]]}
                /\ UNCHANGED <<currentDiscountPercent, cards>>
    /\ UNCHANGED <<lastDone, log>>
    /\ VoucherFrame

checkVoucher ==
    /\ Live("booking_create")
    /\ LET code == trim(Value(voucherCode))
       IN  IF code = <<>>
           THEN /\ voucherMessage' = Text("MSG_ENTER_VOUCHER")
                /\ UNCHANGED <<inflight, issued>>
           ELSE /\ issued < MaxRequests
                /\ voucherMessage' = Text("MSG_VOUCHER_CHECKING")
                /\ issued' = issued + 1
                /\ inflight' = inflight \cup
                       {[id |-> issued + 1, phase |-> "fetch",
                         url |-> [path |-> "window.checkVoucherUrl",
                                  query |-> <<<<"code", encodeURIComponent(code)>>>>]]}
    /\ UNCHANGED <<currentDiscountPercent, cards, lastDone, log>>
    /\ VoucherFrame

\* The catch block (booking_create.js:99-113)
catchBlockClearsState(r, err) ==
    /\ voucherMessage' = Text("MSG_VOUCHER_ERROR")
    /\ cards' = applyDiscountToSlots(cards, absent)
    /\ currentDiscountPercent' = absent
    /\ log' = Append(log, [level |-> "error", type |-> err.name,
                           message |-> err.message, context |-> err.context])
    /\ inflight' = inflight \ {r}
    /\ lastDone' = r.id
    /\ UNCHANGED issued
    /\ VoucherFrame

catchBlock(r, err) ==
    /\ voucherMessage' = Text("MSG_VOUCHER_ERROR")
    /\ cards' = applyDiscountToSlots(cards, absent)
    /\ log' = Append(log, [level |-> "error", type |-> err.name,
                           message |-> err.message, context |-> err.context])
    /\ inflight' = inflight \ {r}
    /\ lastDone' = r.id
    /\ UNCHANGED <<currentDiscountPercent, issued>>
    /\ VoucherFrame

\* await fetch(url) resolves; a non-ok response is thrown (booking_create.js:78-85)
FetchResolves(r, res) ==
    /\ Live("booking_create")
    /\ r \in inflight /\ r.phase = "fetch"
    /\ IF ~res.ok
       THEN catchBlock(r, HttpError(res.status))
       ELSE /\ inflight' = (inflight \ {r}) \cup {[r EXCEPT !.phase = "json"]}
            /\ UNCHANGED <<voucherMessage, currentDiscountPercent, cards, issued,
                           lastDone, log>>
            /\ VoucherFrame

\* await fetch(url) rejects
FetchRejects(r) ==
    /\ Live("booking_create")
    /\ r \in inflight /\ r.phase = "fetch"
    /\ catchBlock(r, FetchError)

\* await res.json() resolves (booking_create.js:87-97)
JsonResolvesKeepsPricesOnInvalid(r, data) ==
    /\ Live("booking_create")
    /\ r \in inflight /\ r.phase = "json"
    /\ IF data.valid
       THEN /\ currentDiscountPercent' = data.discount_percent
            /\ voucherMessage' = [text |-> "MSG_VOUCHER_VALID",
                                  percent |-> data.discount_percent]
            /\ cards' = applyDiscountToSlots(cards, data.discount_percent)
       ELSE /\ currentDiscountPercent' = absent
            /\ voucherMessage' = IF TruthyString(data.message)
                                 THEN Text(Value(data.message))
                                 ELSE Text("MSG_VOUCHER_INVALID")
            /\ cards' = cards
    /\ inflight' = inflight \ {r}
    /\ lastDone' = r.id
    /\ UNCHANGED <<issued, log>>
    /\ VoucherFrame

JsonResolvesKeepsStateOnInvalid(r, data) ==
    /\ Live("booking_create")
    /\ r \in inflight /\ r.phase = "json"
    /\ IF data.valid
       THEN /\ currentDiscountPercent' = data.discount_percent
            /\ voucherMessage' = [text |-> "MSG_VOUCHER_VALID",
                                  percent |-> data.discount_percent]
            /\ cards' = applyDiscountToSlots(cards, data.discount_percent)
       ELSE /\ currentDiscountPercent' = currentDiscountPercent
            /\ voucherMessage' = IF TruthyString(data.message)
                                 THEN Text(Value(data.message))
                                 ELSE Text("MSG_VOUCHER_INVALID")
            /\ cards' = applyDiscountToSlots(cards, absent)
    /\ inflight' = inflight \ {r}
    /\ lastDone' = r.id
    /\ UNCHANGED <<issued, log>>
    /\ VoucherFrame

JsonResolvesDropsStale(r, data) ==
    /\ Live("booking_create")
    /\ r \in inflight /\ r.phase = "json"
    /\ IF r.id # issued
       THEN UNCHANGED <<currentDiscountPercent, voucherMessage, cards>>
       ELSE IF data.valid
       THEN /\ currentDiscountPercent' = data.discount_percent
            /\ voucherMessage' = [text |-> "MSG_VOUCHER_VALID",
                                  percent |-> data.discount_percent]
            /\ cards' = applyDiscountToSlots(cards, data.discount_percent)
       ELSE /\ currentDiscountPercent' = absent
            /\ voucherMessage' = IF TruthyString(data.message)
                                 THEN Text(Value(data.message))
                                 ELSE Text("MSG_VOUCHER_INVALID")
            /\ cards' = applyDiscountToSlots(cards, absent)
    /\ inflight' = inflight \ {r}
    /\ lastDone' = r.id
    /\ UNCHANGED <<issued, log>>
    /\ VoucherFrame

JsonResolves(r, data) ==
    /\ Live("booking_create")
    /\ r \in inflight /\ r.phase = "json"
    /\ IF data.valid
       THEN /\ currentDiscountPercent' = data.discount_percent
            /\ voucherMessage' = [text |-> "MSG_VOUCHER_VALID",
                                  percent |-> data.discount_percent]
            /\ cards' = applyDiscountToSlots(cards, data.discount_percent)
       ELSE /\ currentDiscountPercent' = absent
            /\ voucherMessage' = IF TruthyString(data.message)
                                 THEN Text(Value(data.message))
                                 ELSE Text("MSG_VOUCHER_INVALID")
            /\ cards' = applyDiscountToSlots(cards, absent)
    /\ inflight' = inflight \ {r}
    /\ lastDone' = r.id
    /\ UNCHANGED <<issued, log>>
    /\ VoucherFrame

\* await res.json() rejects: the body is not JSON
JsonRejectsUncaught(r) ==
    /\ Live("booking_create")
    /\ r \in inflight /\ r.phase = "json"
    /\ inflight' = inflight \ {r}
    /\ lastDone' = r.id
    /\ UNCHANGED <<voucherMessage, currentDiscountPercent, cards, issued, log>>
    /\ VoucherFrame

JsonRejects(r) ==
    /\ Live("booking_create")
    /\ r \in inflight /\ r.phase = "json"
    /\ catchBlock(r, ParseError)

----------------------------------------------------------------------------
\* book_pitch.js

PitchFrame ==
    UNCHANGED <<page, voucherCode, bookingDate, voucherMessage,
                currentDiscountPercent, cards, selectedTimeSlot, submitBtn,
                formMessage, inflight, issued, lastDone, log>>

\* dateInput 'change' listener: submits #dateSelectionForm
pitchDateChange(v) ==
    /\ Live("book_pitch")
    /\ IF v # <<>>
       THEN Navigate([path |-> "dateSelectionForm.action",
                      query |-> <<<<"booking_date", v>>>>])
       ELSE UNCHANGED vars

\* checkVoucher of book_pitch.js
checkVoucherPitchNoDateCheck ==
    /\ Live("book_pitch")
    /\ LET code == IF voucherCode # absent THEN trim(Value(voucherCode)) ELSE <<>>
           date == IF bookingDate # absent THEN Value(bookingDate) ELSE <<>>
       IN  IF code = <<>>
           THEN /\ alertText' = "Vui long nhap ma giam gia"
                /\ focused' = IF voucherCode # absent THEN TRUE ELSE focused
                /\ UNCHANGED location
                /\ PitchFrame
           ELSE Navigate([path |-> "window.location.href.split('?')[0]",
                          query |-> <<<<"booking_date", encodeURIComponent(date)>>,
                                      <<"voucher_code", encodeURIComponent(code)>>>>])

checkVoucherPitch ==
    /\ Live("book_pitch")
    /\ LET code == IF voucherCode # absent THEN trim(Value(voucherCode)) ELSE <<>>
           date == IF bookingDate # absent THEN Value(bookingDate) ELSE <<>>
       IN  IF code = <<>>
           THEN /\ alertText' = "Vui long nhap ma giam gia"
                /\ focused' = IF voucherCode # absent THEN TRUE ELSE focused
                /\ UNCHANGED location
                /\ PitchFrame
           ELSE IF date = <<>>
           THEN /\ alertText' = "Vui long chon ngay dat san truoc"
                /\ UNCHANGED <<location, focused>>
                /\ PitchFrame
           ELSE Navigate([path |-> "window.location.href.split('?')[0]",
                          query |-> <<<<"booking_date", encodeURIComponent(date)>>,
                                      <<"voucher_code", encodeURIComponent(code)>>>>])

----------------------------------------------------------------------------

Next ==
    \/ \E v \in Codes : InputVoucherCode(v)
    \/ \E v \in {<<>>, DateValue} : bookingDateChange(v)
    \/ \E c \in Cards : selectTimeSlot(c)
    \/ bookingFormSubmit
    \/ checkVoucher
    \/ \E r \in inflight, res \in Responses : FetchResolves(r, res)
    \/ \E r \in inflight : FetchRejects(r)
    \/ \E r \in inflight, data \in Bodies : JsonResolves(r, data)
    \/ \E r \in inflight : JsonRejects(r)
    \/ \E v \in {<<>>, DateValue} : pitchDateChange(v)
    \/ checkVoucherPitch

Spec == Init /\ [][Next]_vars

----------------------------------------------------------------------------
\* Properties

NoDate == bookingDate = absent \/ Value(bookingDate) = <<>>

EmptyCode == voucherCode = absent \/ trim(Value(voucherCode)) = <<>>

\* p is num / den rounded to the nearest integer, halves going up
IsHalfUp(p, num, den) == 2 * den * p <= 2 * num + den /\ 2 * num + den < 2 * den * (p + 1)

BasePriceOnly(card) ==
    /\ card.slotDiscountedPrice = absent
    /\ card.priceTag = {[original |-> card.slotPrice, struck |-> FALSE, discount |-> absent]}

DiscountedBy(card, d) ==
    /\ card.slotDiscountedPrice # absent
    /\ IsHalfUp(Value(card.slotDiscountedPrice), card.slotPrice * (100 - d), 100)

ErrorRecord(rec) == rec.level = "error" /\ rec.message # ""

\* C1: checkVoucher invoked with an empty or whitespace-only code, whatever
\* the date, shows the "enter a code" message, issues no request and no
\* navigation, and leaves the applied discount and every slot as they were.
C1_EmptyCodeAborts ==
    [][ /\ (checkVoucher /\ EmptyCode) =>
               /\ voucherMessage' = Text("MSG_ENTER_VOUCHER")
               /\ UNCHANGED <<inflight, issued, location, currentDiscountPercent,
                              cards, log>>
        /\ (checkVoucherPitch /\ EmptyCode) =>
               /\ alertText' = "Vui long nhap ma giam gia"
               /\ UNCHANGED <<inflight, issued, location, currentDiscountPercent,
                              cards, log>>
      ]_vars

\* An empty-code abort that left an active discount on every slot, with a
\* whitespace-only code and no date selected
C1_Witness ==
    /\ page = "booking_create"
    /\ voucherCode = {<<" ">>}
    /\ NoDate
    /\ voucherMessage = Text("MSG_ENTER_VOUCHER")
    /\ currentDiscountPercent = {20}
    /\ \A c \in Cards : cards[c].slotDiscountedPrice # absent

C3_ValidResponseDiscountsEverySlot ==
    [][ \A r \in inflight, data \in ValidBodies :
            JsonResolves(r, data) =>
                LET d == Value(data.discount_percent)
                IN  /\ currentDiscountPercent' = {d}
                    /\ \A c \in Cards :
                           /\ DiscountedBy(cards'[c], d)
                           /\ (cards[c].slotPrice = 100000 /\ d = 20)
                                  => cards'[c].slotDiscountedPrice = {80000}
                           /\ (cards[c].slotPrice = 100001 /\ d = 33)
                                  => cards'[c].slotDiscountedPrice = {67001}
      ]_vars

\* C4: an invalid response clears the applied discount, leaves every slot
\* with its base price only, and shows the server's message when it sent a
\* (non-empty) one and the generic invalid-voucher text otherwise.
C4_InvalidResponseClears ==
    [][ \A r \in inflight, data \in InvalidBodies :
            JsonResolves(r, data) =>
                /\ currentDiscountPercent' = absent
                /\ \A c \in Cards : BasePriceOnly(cards'[c])
                /\ voucherMessage' =
                       IF data.message # absent /\ data.message # {""}
                       THEN Text(Value(data.message))
                       ELSE Text("MSG_VOUCHER_INVALID")
      ]_vars

C4_Witness ==
    /\ voucherMessage = Text("Expired")
    /\ currentDiscountPercent = absent
    /\ issued = 2 /\ inflight = {} /\ log = <<>>
    /\ \A c \in Cards : BasePriceOnly(cards[c])

\* C5: a non-2xx response shows the generic error text, emits exactly one
\* log record whose context holds the status, reverts every slot to its base
\* price only, and leaves the applied discount at its prior value.
C5_HttpErrorKeepsState ==
    [][ \A r \in inflight, res \in Responses :
            (FetchResolves(r, res) /\ ~res.ok) =>
                /\ voucherMessage' = Text("MSG_VOUCHER_ERROR")
                /\ Len(log') = Len(log) + 1
                /\ SubSeq(log', 1, Len(log)) = log
                /\ ErrorRecord(log'[Len(log')])
                /\ log'[Len(log')].context = {[status |-> res.status]}
                /\ \A c \in Cards : BasePriceOnly(cards'[c])
                /\ currentDiscountPercent' = currentDiscountPercent
      ]_vars

\* After a failed request the display is reverted while the discount of the
\* earlier valid check is still recorded
C5_Witness ==
    /\ voucherMessage = Text("MSG_VOUCHER_ERROR")
    /\ currentDiscountPercent = {33}
    /\ Len(log) = 1
    /\ log[1].type = "VoucherCheckError"
    /\ log[1].context = {[status |-> 500]}
    /\ \A c \in Cards : BasePriceOnly(cards[c])

\* The steps at which an invocation of checkVoucher (booking_create.js) ends
\* in a failure: a non-2xx status, a rejected fetch, an unparseable body
FailureStep(r) ==
    \/ \E res \in Responses : FetchResolves(r, res) /\ ~res.ok
    \/ FetchRejects(r)
    \/ JsonRejects(r)

\* The invocations that leave the in-flight set at this step
Ended == {r \in inflight : \A q \in inflight' : q.id # r.id}

\* C6 as stated: the applied discount is reset to absent by every invocation
\* that ends in an invalid response, an empty-input abort or a request
\* failure, and set to the returned percent by a valid response.
C6_AsStated ==
    [][ /\ (checkVoucher /\ EmptyCode) => currentDiscountPercent' = absent
        /\ \A r \in Ended :
               /\ FailureStep(r) => currentDiscountPercent' = absent
               /\ \A data \in Bodies :
                      JsonResolves(r, data) =>
                          currentDiscountPercent' =
                              IF data.valid THEN data.discount_percent ELSE absent
      ]_vars

\* C6 amended: the applied discount is reset to absent by every invocation
\* that ends in an invalid response, set to the returned percent by every
\* invocation that ends in a valid response, and left at its prior value by
\* an empty-input abort and by a request failure.
C6_DiscountStateLifecycle ==
    [][ /\ (checkVoucher /\ EmptyCode) =>
               currentDiscountPercent' = currentDiscountPercent
        /\ \A r \in Ended :
               /\ FailureStep(r) => currentDiscountPercent' = currentDiscountPercent
               /\ \A data \in Bodies :
                      JsonResolves(r, data) =>
                          currentDiscountPercent' =
                              IF data.valid THEN data.discount_percent ELSE absent
      ]_vars

\* The discount of a valid check survived a later invocation whose fetch
\* was rejected
C6_Witness ==
    /\ currentDiscountPercent = {100}
    /\ issued = 2 /\ inflight = {}
    /\ Len(log) = 1 /\ log[1].type = "TypeError"
    /\ voucherMessage = Text("MSG_VOUCHER_ERROR")

\* C7: in every reachable state either no slot has a discounted price or
\* every slot has the discounted price of one and the same percent.
C7_UniformAnnotations ==
    \/ \A c \in Cards : cards[c].slotDiscountedPrice = absent
    \/ \E d \in 1 .. 100 : \A c \in Cards : DiscountedBy(cards[c], d)

\* Every slot discounted after two overlapping checks completed out of order
C7_Witness ==
    /\ issued = 2 /\ inflight = {} /\ lastDone = 1
    /\ \A c \in Cards : cards[c].slotDiscountedPrice # absent
    /\ cards[1].slotDiscountedPrice = {67000}

\* C8: checkVoucher has no in-flight guard, and a response that arrives
\* after a later invocation was issued is applied like any other: the
\* message, the applied discount and the slot prices are those of the
\* response that completes last.
C8_LastResponseWins ==
    [][ \A r \in Ended :
            r.id < issued =>
                /\ FailureStep(r) =>
                       /\ voucherMessage' = Text("MSG_VOUCHER_ERROR")
                       /\ \A c \in Cards : BasePriceOnly(cards'[c])
                /\ \A data \in Bodies :
                       JsonResolves(r, data) =>
                           /\ currentDiscountPercent' =
                                  IF data.valid THEN data.discount_percent ELSE absent
                           /\ voucherMessage'.text =
                                  IF data.valid THEN "MSG_VOUCHER_VALID"
                                  ELSE IF TruthyString(data.message)
                                       THEN Value(data.message)
                                       ELSE "MSG_VOUCHER_INVALID"
                           /\ voucherMessage'.percent = data.discount_percent
                           /\ \A c \in Cards :
                                  IF TruthyNumber(data.discount_percent)
                                  THEN DiscountedBy(cards'[c], Value(data.discount_percent))
                                  ELSE BasePriceOnly(cards'[c])
      ]_vars

\* Two invocations overlapped; the one issued last failed first, and the
\* page ends with the valid result of the one issued first
C8_Witness ==
    /\ issued = 2 /\ inflight = {} /\ lastDone = 1
    /\ Len(log) = 1
    /\ voucherMessage = [text |-> "MSG_VOUCHER_VALID", percent |-> {20}]
    /\ currentDiscountPercent = {20}
    /\ \A c \in Cards : DiscountedBy(cards[c], 20)

\* C9: every invocation whose request completes ends with a message other
\* than the "checking" text; a non-2xx status, a rejected fetch and an
\* unparseable body each show the generic error text and emit exactly one
\* log record.
C9_NoErrorEscapes ==
    [][ \A r \in Ended :
            /\ (FailureStep(r) \/ \E data \in Bodies : JsonResolves(r, data)) =>
                   voucherMessage'.text # "MSG_VOUCHER_CHECKING"
            /\ FailureStep(r) =>
                   /\ voucherMessage' = Text("MSG_VOUCHER_ERROR")
                   /\ Len(log') = Len(log) + 1
                   /\ ErrorRecord(log'[Len(log')])
            /\ (\E data \in Bodies : JsonResolves(r, data)) => log' = log
      ]_vars

\* An unparseable success body and a rejected fetch, each logged once
C9_Witness ==
    /\ inflight = {} /\ issued = 2
    /\ Len(log) = 2
    /\ log[1].type = "SyntaxError" /\ log[2].type = "TypeError"
    /\ voucherMessage = Text("MSG_VOUCHER_ERROR")

SelectionConsistent ==
    /\ Cardinality({c \in Cards : cards[c].selected}) <= 1
    /\ \A c \in Cards :
           cards[c].selected =>
               /\ cards[c].available
               /\ selectedTimeSlot = {cards[c].slotId}

\* C10: after any clicks on slot cards at most one card is selected, it is
\* an available one and #selectedTimeSlot holds its identifier; a click on
\* a card that is not available changes neither the selection, the field
\* nor the submit button.
C10_SingleSelection ==
    [][ /\ SelectionConsistent'
        /\ \A c \in Cards :
               (selectTimeSlot(c) /\ cards[c].available # TRUE) =>
                   UNCHANGED <<cards, selectedTimeSlot, submitBtn>>
      ]_vars

\* The second available card is the selected one, the submit button enabled
C10_Witness ==
    /\ cards[2].selected /\ ~cards[1].selected
    /\ selectedTimeSlot = {cards[2].slotId}
    /\ submitBtn = {FALSE}
    /\ currentDiscountPercent # absent

====
